---- MODULE Spec2Model ----
(***************************************************************************)
(* Model of scripts/comparing-staging-production.ts: the script that       *)
(* fetches the company list of the staging and of the production API,      *)
(* compares them company by company, reporting period by reporting period  *)
(* and field by field (compareData and its comparators), and writes the    *)
(* comparison as a JSON file and as a CSV file (main).                     *)
(*                                                                         *)
(* JavaScript values are records tagged by their type in field t:          *)
(* undefined, null, number, string, object (with its properties as         *)
(* further fields) and array (with its elements in field items).           *)
(* The entries of matchedFields / mismatchedFields are the very strings    *)
(* the script builds.                                                      *)
(***************************************************************************)
EXTENDS Integers, Sequences, FiniteSets, TLC

VARIABLES
    pc,                 \* position of main: which awaited step comes next
    stagingData,        \* main: const stagingData (<<>> until fetched)
    productionData,     \* main: const productionData (<<>> until fetched)
    comparisonResults,  \* main: const comparisonResults (<<>> until compared)
    fieldCounts,        \* compareData: the locals matchedFieldCount and
                        \* totalFieldCount it had for each production company
    files,              \* the output files written so far, name -> content
    caught,             \* the step whose error the catch of main logged
    call,               \* a single comparator call: its name and arguments
    returned            \* what that call returned and left in comparisonResult

vars == <<pc, stagingData, productionData, comparisonResults, fieldCounts,
          files, caught, call, returned>>

-----------------------------------------------------------------------------
(* Bounds of the checked inputs *)

MaxScopeVal == 1     \* scope1/scope2 field values are 1..MaxScopeVal
MaxVal == 2          \* totals, category totals, employees are 1..MaxVal
MaxCategories == 3   \* scope 3 category numbers are 1..MaxCategories
MaxCompanies == 2    \* companies per dataset, and distinct wikidataIds
MaxPeriods == 2      \* reporting periods per company, and distinct years

-----------------------------------------------------------------------------
(* JavaScript values and the operators of the language the script uses *)

Undef == [t |-> "undefined"]
Null == [t |-> "null"]
Num(n) == [t |-> "number", v |-> n]
Str(s) == [t |-> "string", v |-> s]
Arr(items) == [t |-> "array", items |-> items]

\* o?.f : undefined when o is undefined or null or has no property f
Get(o, f) == IF o.t = "object" /\ f \in DOMAIN o THEN o[f] ELSE Undef

\* !x is FALSE exactly for the truthy values
Truthy(x) ==
    CASE x.t \in {"object", "array"} -> TRUE
      [] x.t = "number" -> x.v # 0
      [] x.t = "string" -> x.v # ""
      [] OTHER -> FALSE

\* x != null (loose): false for null and for undefined
NotNullish(x) == x.t \notin {"undefined", "null"}

\* `${x}` for the primitive values the script interpolates
Template(x) ==
    CASE x.t = "number" -> ToString(x.v)
      [] x.t = "string" -> x.v
      [] x.t = "null" -> "null"
      [] OTHER -> "undefined"

\* String.prototype.startsWith
StartsWith(s, prefix) ==
    /\ Len(s) >= Len(prefix)
    /\ SubSeq(s, 1, Len(prefix)) = prefix

\* array.length || 0 of a value that may be undefined
LengthOr0(a) == IF a.t = "array" THEN Len(a.items) ELSE 0

-----------------------------------------------------------------------------
(* formatYear and formatCurrency *)

Digit(c) == CHOOSE d \in 0..9 : ToString(d) = c

RECURSIVE ParseInt(_)
ParseInt(s) ==
    IF Len(s) = 0 THEN 0
    ELSE 10 * ParseInt(SubSeq(s, 1, Len(s) - 1)) + Digit(SubSeq(s, Len(s), Len(s)))

\* an alignment key that keeps the whole date instead of its year
formatYear_WholeDate(date) == date

\* new Date(date).getFullYear().toString() for an ISO date "YYYY-MM-DD..."
\* that is no closer than a day to either end of its year, so that the
\* local time zone cannot move it into a neighbouring year.
formatYear(date) == ToString(ParseInt(SubSeq(date, 1, 4)))

\* Intl.NumberFormat('en-US', {useGrouping: true}).format of a non-negative
\* integer: its digits in groups of three, separated by commas
RECURSIVE GroupDigits(_)
GroupDigits(s) ==
    IF Len(s) <= 3 THEN s
    ELSE GroupDigits(SubSeq(s, 1, Len(s) - 3)) \o "," \o SubSeq(s, Len(s) - 2, Len(s))

\* .replace(/,/g, ' ')
RECURSIVE ReplaceCommas(_)
ReplaceCommas(s) ==
    IF Len(s) = 0 THEN ""
    ELSE (IF SubSeq(s, 1, 1) = "," THEN " " ELSE SubSeq(s, 1, 1))
         \o ReplaceCommas(SubSeq(s, 2, Len(s)))

\* format(null) is "0" (null converts to the number 0)
formatCurrency(amount, currency) ==
    ReplaceCommas(GroupDigits(IF amount.t = "number" THEN ToString(amount.v) ELSE "0"))
    \o " " \o Template(currency)

-----------------------------------------------------------------------------
(* The comparators. Each takes the comparisonResult object it pushes to    *)
(* and returns the count it returns together with the object as it left it *)

Ret(n, comparisonResult) == [ret |-> n, comparisonResult |-> comparisonResult]

PushMatched(cr, entry) ==
    [cr EXCEPT !.matchedFields = Append(@, entry)]

PushMismatched(cr, entry) ==
    [cr EXCEPT !.mismatchedFields = Append(@, entry)]

fields == <<"total", "mb", "lb", "unknown">>

\* a guard that forgets the staging side
BothDefined_ProdOnly(prodValue, stageValue) == prodValue # Undef

\* prodValue !== undefined && stageValue !== undefined
BothDefined(prodValue, stageValue) == prodValue # Undef /\ stageValue # Undef

RECURSIVE compareEmissionsLoop(_, _, _, _, _, _, _)
compareEmissionsLoop(i, scopeName, prodScope, stageScope, cr, year, matchedFieldCount) ==
    IF i > Len(fields) THEN Ret(matchedFieldCount, cr)
    ELSE
        LET field == fields[i]
            prodValue == Get(prodScope, field)
            stageValue == Get(stageScope, field)
            label == scopeName \o "." \o field \o ": " \o year
        IN  IF BothDefined(prodValue, stageValue)
            THEN IF prodValue = stageValue
                 THEN compareEmissionsLoop(i + 1, scopeName, prodScope, stageScope,
                          PushMatched(cr, label), year, matchedFieldCount + 1)
                 ELSE compareEmissionsLoop(i + 1, scopeName, prodScope, stageScope,
                          PushMismatched(cr, label), year, matchedFieldCount)
            ELSE compareEmissionsLoop(i + 1, scopeName, prodScope, stageScope,
                          cr, year, matchedFieldCount)

compareEmissions(scopeName, prodScope, stageScope, comparisonResult, year) ==
    IF ~Truthy(prodScope) /\ ~Truthy(stageScope) THEN Ret(0, comparisonResult)
    ELSE compareEmissionsLoop(1, scopeName, prodScope, stageScope,
                              comparisonResult, year, 0)

\* Array.prototype.find, given the indexes of the elements that pass its
\* test: the index of the first of them, 0 when there is none (find returns
\* that element, or undefined)
FirstIndex(hits) ==
    IF hits = {} THEN 0 ELSE CHOOSE j \in hits : \A k \in hits : j <= k

\* a loop that skips a category staging lacks without recording it
RECURSIVE compareScope3Loop_Skip(_, _, _, _, _, _)
compareScope3Loop_Skip(i, prodCategories, stageCategories, cr, year, matchedFieldCount) ==
    IF i > Len(prodCategories) THEN Ret(matchedFieldCount, cr)
    ELSE
        LET prodCategory == prodCategories[i]
            SameCategory(cat) == cat.category = prodCategory.category
            found == FirstIndex({j \in 1..Len(stageCategories) :
                                    SameCategory(stageCategories[j])})
            label == "scope3.category=" \o Template(prodCategory.category)
                     \o ": " \o year
        IN  IF found = 0
            THEN compareScope3Loop_Skip(i + 1, prodCategories, stageCategories,
                     cr, year, matchedFieldCount)
            ELSE IF prodCategory.total = stageCategories[found].total
            THEN compareScope3Loop_Skip(i + 1, prodCategories, stageCategories,
                     PushMatched(cr, label), year, matchedFieldCount + 1)
            ELSE compareScope3Loop_Skip(i + 1, prodCategories, stageCategories,
                     PushMismatched(cr, label), year, matchedFieldCount)

RECURSIVE compareScope3Loop(_, _, _, _, _, _)
compareScope3Loop(i, prodCategories, stageCategories, cr, year, matchedFieldCount) ==
    IF i > Len(prodCategories) THEN Ret(matchedFieldCount, cr)
    ELSE
        LET prodCategory == prodCategories[i]
            SameCategory(cat) == cat.category = prodCategory.category
            found == FirstIndex({j \in 1..Len(stageCategories) :
                                    SameCategory(stageCategories[j])})
            label == "scope3.category=" \o Template(prodCategory.category)
                     \o ": " \o year
        IN  IF found = 0
            THEN compareScope3Loop(i + 1, prodCategories, stageCategories,
                     PushMismatched(cr, label), year, matchedFieldCount)
            ELSE IF prodCategory.total = stageCategories[found].total
            THEN compareScope3Loop(i + 1, prodCategories, stageCategories,
                     PushMatched(cr, label), year, matchedFieldCount + 1)
            ELSE compareScope3Loop(i + 1, prodCategories, stageCategories,
                     PushMismatched(cr, label), year, matchedFieldCount)

compareScope3(prodScope3, stageScope3, comparisonResult, year) ==
    IF ~Truthy(prodScope3) /\ ~Truthy(stageScope3) THEN Ret(0, comparisonResult)
    ELSE
        LET prodStated == Get(Get(prodScope3, "statedTotalEmissions"), "total")
            stageStated == Get(Get(stageScope3, "statedTotalEmissions"), "total")
            label == "scope3.statedTotalEmissions.total: " \o year
            afterStated ==
                IF prodStated = stageStated
                THEN IF NotNullish(prodStated)
                     THEN Ret(1, PushMatched(comparisonResult, label))
                     ELSE Ret(0, comparisonResult)
                ELSE Ret(0, PushMismatched(comparisonResult, label))
            prodCategories == Get(prodScope3, "categories")
            stageCategories == Get(stageScope3, "categories")
        IN  IF Truthy(prodCategories) /\ Truthy(stageCategories)
            THEN compareScope3Loop(1, prodCategories.items, stageCategories.items,
                     afterStated.comparisonResult, year, afterStated.ret)
            ELSE afterStated

\* a comparison of the two totals without the inner null checks: equal is a
\* match, whatever the values
compareTotalEmissions_NoNullCheck(prodEmissions, stageEmissions, comparisonResult, year) ==
    LET prodCalculated == Get(prodEmissions, "calculatedTotalEmissions")
        stageCalculated == Get(stageEmissions, "calculatedTotalEmissions")
        calculatedLabel == "calculatedTotalEmissions: " \o year
        afterCalculated ==
            IF prodCalculated = stageCalculated
            THEN Ret(1, PushMatched(comparisonResult, calculatedLabel))
            ELSE Ret(0, PushMismatched(comparisonResult, calculatedLabel))
        prodStated == Get(Get(prodEmissions, "statedTotalEmissions"), "total")
        stageStated == Get(Get(stageEmissions, "statedTotalEmissions"), "total")
        statedLabel == "statedTotalEmissions.total: " \o year
    IN  IF prodStated = stageStated
        THEN Ret(afterCalculated.ret + 1,
                 PushMatched(afterCalculated.comparisonResult, statedLabel))
        ELSE Ret(afterCalculated.ret,
                 PushMismatched(afterCalculated.comparisonResult, statedLabel))

compareTotalEmissions(prodEmissions, stageEmissions, comparisonResult, year) ==
    LET prodCalculated == Get(prodEmissions, "calculatedTotalEmissions")
        stageCalculated == Get(stageEmissions, "calculatedTotalEmissions")
        calculatedLabel == "calculatedTotalEmissions: " \o year
        afterCalculated ==
            IF prodCalculated = stageCalculated
            THEN IF NotNullish(prodCalculated)
                 THEN Ret(1, PushMatched(comparisonResult, calculatedLabel))
                 ELSE Ret(0, comparisonResult)
            ELSE Ret(0, PushMismatched(comparisonResult, calculatedLabel))
        prodStated == Get(Get(prodEmissions, "statedTotalEmissions"), "total")
        stageStated == Get(Get(stageEmissions, "statedTotalEmissions"), "total")
        statedLabel == "statedTotalEmissions.total: " \o year
    IN  IF prodStated = stageStated
        THEN IF NotNullish(prodStated)
             THEN Ret(afterCalculated.ret + 1,
                      PushMatched(afterCalculated.comparisonResult, statedLabel))
             ELSE afterCalculated
        ELSE Ret(afterCalculated.ret,
                 PushMismatched(afterCalculated.comparisonResult, statedLabel))

compareEconomy(prodEconomy, stageEconomy, comparisonResult, year) ==
    LET prodEmployees == Get(Get(prodEconomy, "employees"), "value")
        stageEmployees == Get(Get(stageEconomy, "employees"), "value")
        afterEmployees ==
            IF BothDefined(prodEmployees, stageEmployees)
            THEN IF prodEmployees = stageEmployees
                 THEN Ret(1, PushMatched(comparisonResult,
                              "employees: " \o Template(prodEmployees)))
                 ELSE Ret(0, PushMismatched(comparisonResult,
                              "employees: Production(" \o Template(prodEmployees)
                              \o ") vs Staging(" \o Template(stageEmployees) \o ")"))
            ELSE Ret(0, comparisonResult)
        prodEconomyValue == Get(Get(prodEconomy, "turnover"), "value")
        prodEconomyCurrency == Get(Get(prodEconomy, "turnover"), "currency")
        stageEconomyValue == Get(Get(stageEconomy, "turnover"), "value")
        stageEconomyCurrency == Get(Get(stageEconomy, "turnover"), "currency")
        formattedProdEconomy == formatCurrency(prodEconomyValue, prodEconomyCurrency)
        formattedStageEconomy == formatCurrency(stageEconomyValue, stageEconomyCurrency)
    IN  IF BothDefined(prodEconomyValue, stageEconomyValue)
        THEN IF prodEconomyValue = stageEconomyValue
                /\ prodEconomyCurrency = stageEconomyCurrency
             THEN Ret(afterEmployees.ret + 1,
                      PushMatched(afterEmployees.comparisonResult,
                                  "economy: " \o formattedProdEconomy))
             ELSE Ret(afterEmployees.ret,
                      PushMismatched(afterEmployees.comparisonResult,
                                     "economy: Production(" \o formattedProdEconomy
                                     \o ") vs Staging(" \o formattedStageEconomy \o ")"))
        ELSE afterEmployees

-----------------------------------------------------------------------------
(* compareData *)

\* parseFloat(((matched / total) * 100).toFixed(2)), held in hundredths of a
\* percent: 10000 stands for the accuracy 100, 3333 for 33.33. toFixed rounds
\* to the nearest hundredth and a tie upwards.
Accuracy(matchedFieldCount, totalFieldCount) ==
    (2 * 10000 * matchedFieldCount + totalFieldCount) \div (2 * totalFieldCount)

\* what compareData adds to totalFieldCount after each comparator
Scope1Denominator == 1
Scope2Denominator == 3
Scope3Denominator(prodScope3) == LengthOr0(Get(prodScope3, "categories")) + 1
TotalsDenominator == 2
EconomyDenominator == 2

\* the state of the loop over prodCompany.reportingPeriods
Acc(cr, matchedFieldCount, totalFieldCount) ==
    [comparisonResult |-> cr,
     matchedFieldCount |-> matchedFieldCount,
     totalFieldCount |-> totalFieldCount]

\* one pass of the loop body for a production period that has a staging period
comparePeriod(prodReportingPeriod, stageReportingPeriod, acc, year) ==
    LET prodEmissions == prodReportingPeriod.emissions
        stageEmissions == stageReportingPeriod.emissions
        s1 == compareEmissions("scope1", Get(prodEmissions, "scope1"),
                  Get(stageEmissions, "scope1"), acc.comparisonResult, year)
        s2 == compareEmissions("scope2", Get(prodEmissions, "scope2"),
                  Get(stageEmissions, "scope2"), s1.comparisonResult, year)
        s3 == compareScope3(Get(prodEmissions, "scope3"),
                  Get(stageEmissions, "scope3"), s2.comparisonResult, year)
        te == compareTotalEmissions(prodEmissions, stageEmissions,
                  s3.comparisonResult, year)
        ec == compareEconomy(prodReportingPeriod.economy,
                  stageReportingPeriod.economy, te.comparisonResult, year)
    IN  Acc(ec.comparisonResult,
            acc.matchedFieldCount + s1.ret + s2.ret + s3.ret + te.ret + ec.ret,
            acc.totalFieldCount + Scope1Denominator + Scope2Denominator
                + Scope3Denominator(Get(prodEmissions, "scope3"))
                + TotalsDenominator + EconomyDenominator)

RECURSIVE comparePeriods(_, _, _, _)
comparePeriods(i, prodCompany, stageCompany, acc) ==
    IF i > Len(prodCompany.reportingPeriods) THEN acc
    ELSE
        LET prodReportingPeriod == prodCompany.reportingPeriods[i]
            year == formatYear(prodReportingPeriod.endDate)
            SameYear(rp) == formatYear(rp.endDate) = year
            found == FirstIndex({j \in 1..Len(stageCompany.reportingPeriods) :
                                    SameYear(stageCompany.reportingPeriods[j])})
        IN  IF found = 0
            THEN comparePeriods(i + 1, prodCompany, stageCompany,
                     Acc(PushMismatched(acc.comparisonResult,
                                        "Reporting period: " \o year),
                         acc.matchedFieldCount, acc.totalFieldCount))
            ELSE comparePeriods(i + 1, prodCompany, stageCompany,
                     comparePeriod(prodReportingPeriod,
                                   stageCompany.reportingPeriods[found], acc, year))

\* a comment that goes by the accuracy instead of the mismatch list
noteOf_ByAccuracy(comparisonResult) ==
    IF comparisonResult.accuracy = 10000
    THEN "All data matches between production and staging"
    ELSE "Partial mismatch or missing data between production and staging"

\* the comment compareData adds once the accuracy is set
noteOf(comparisonResult) ==
    IF Len(comparisonResult.mismatchedFields) = 0
    THEN "All data matches between production and staging"
    ELSE "Partial mismatch or missing data between production and staging"

WithNote(cr, accuracy, note) ==
    [name |-> cr.name,
     matchedFields |-> cr.matchedFields,
     mismatchedFields |-> cr.mismatchedFields,
     accuracy |-> accuracy,
     note |-> note]

\* the body of the loop over productionData for one production company: the
\* result it pushes, with the two counters as they stood when it pushed it
\* (both still undeclared, shown as 0, for a company staging does not have)
compareCompany(stagingData_, prodCompany) ==
    LET SameId(comp) == comp.wikidataId = prodCompany.wikidataId
        found == FirstIndex({j \in 1..Len(stagingData_) : SameId(stagingData_[j])})
    IN  IF found = 0
        THEN Acc([name |-> prodCompany.name,
                  matchedFields |-> <<>>,
                  mismatchedFields |-> <<"Company does not exist in staging">>,
                  accuracy |-> 0,
                  note |-> "Exists in production but not in staging"], 0, 0)
        ELSE
            LET acc == comparePeriods(1, prodCompany, stagingData_[found],
                           Acc([name |-> prodCompany.name,
                                matchedFields |-> <<>>,
                                mismatchedFields |-> <<>>,
                                accuracy |-> 0], 0, 0))
                accuracy == IF acc.totalFieldCount > 0
                            THEN Accuracy(acc.matchedFieldCount, acc.totalFieldCount)
                            ELSE 0
                scored == [acc.comparisonResult EXCEPT !.accuracy = accuracy]
            IN  Acc(WithNote(scored, accuracy, noteOf(scored)),
                    acc.matchedFieldCount, acc.totalFieldCount)

\* compareData with its two arguments taken in the other order
compareData_Swapped(stagingData_, productionData_) ==
    [i \in 1..Len(stagingData_) |->
        compareCompany(productionData_, stagingData_[i]).comparisonResult]

compareData(stagingData_, productionData_) ==
    [i \in 1..Len(productionData_) |->
        compareCompany(stagingData_, productionData_[i]).comparisonResult]

\* matchedFieldCount and totalFieldCount of compareData, company by company
compareDataCounts(stagingData_, productionData_) ==
    [i \in 1..Len(productionData_) |->
        LET acc == compareCompany(stagingData_, productionData_[i])
        IN  [matchedFieldCount |-> acc.matchedFieldCount,
             totalFieldCount |-> acc.totalFieldCount]]

-----------------------------------------------------------------------------
(* generateCSV and resolveMatchOrDifference *)

\* entries that carry the column they belong to as their field
PropertyOfEntry_Structured(entry, property) ==
    IF property = "field" THEN Str(SubSeq(entry, 1, 6)) ELSE Undef

\* field.field, field.production, field.staging of a mismatch entry: the
\* entry is a string, and a string has no such property
PropertyOfEntry(entry, property) == Undef

\* x || "N/A"
OrNA(x) == IF Truthy(x) THEN Template(x) ELSE "N/A"

\* the reduce over result.mismatchedFields: an object keyed by the property
\* name String(field.field), later entries overwriting earlier ones
mismatchedMapOf(mismatchedFields) ==
    LET keys == {Template(PropertyOfEntry(mismatchedFields[i], "field")) :
                    i \in 1..Len(mismatchedFields)}
        Last(key) == CHOOSE i \in 1..Len(mismatchedFields) :
            /\ Template(PropertyOfEntry(mismatchedFields[i], "field")) = key
            /\ \A j \in 1..Len(mismatchedFields) :
                 Template(PropertyOfEntry(mismatchedFields[j], "field")) = key => j <= i
    IN  [key \in keys |->
            [production |-> OrNA(PropertyOfEntry(mismatchedFields[Last(key)], "production")),
             staging |-> OrNA(PropertyOfEntry(mismatchedFields[Last(key)], "staging"))]]

resolveMatchOrDifference(fieldName, mismatchedMap, matchedFields) ==
    LET Matches(field) == StartsWith(field, fieldName)
    IN  IF fieldName \in DOMAIN mismatchedMap
        THEN "Production: " \o mismatchedMap[fieldName].production
             \o ", Staging: " \o mismatchedMap[fieldName].staging
        ELSE IF FirstIndex({j \in 1..Len(matchedFields) : Matches(matchedFields[j])}) # 0
        THEN "Yes"
        ELSE "N/A"

\* result.inStaging: no result object has this property
inStagingOf(result) == Get([t |-> "object"] @@ result, "inStaging")

\* one row of csvData
csvRow(result) ==
    LET mismatchedMap == mismatchedMapOf(result.mismatchedFields)
    IN  [name |-> result.name,
         inStaging |-> IF Truthy(inStagingOf(result)) THEN "Yes" ELSE "No",
         scope1 |-> resolveMatchOrDifference("scope1", mismatchedMap, result.matchedFields),
         scope2 |-> resolveMatchOrDifference("scope2", mismatchedMap, result.matchedFields),
         scope3 |-> resolveMatchOrDifference("scope3", mismatchedMap, result.matchedFields),
         employees |-> resolveMatchOrDifference("employees", mismatchedMap, result.matchedFields),
         economy |-> resolveMatchOrDifference("economy", mismatchedMap, result.matchedFields),
         accuracy |-> result.accuracy]

csvDataOf(results) == [i \in 1..Len(results) |-> csvRow(results[i])]

-----------------------------------------------------------------------------
(* The records the checked runs are given. A property that JSON leaves     *)
(* out is held as undefined: Get reads both alike.                         *)

ScopeVals == {Undef, Null} \cup {Num(n) : n \in 1..MaxScopeVal}
Vals == {Undef, Null} \cup {Num(n) : n \in 1..MaxVal}

ScopeObj(total, mb, lb, unknown) ==
    [t |-> "object", total |-> total, mb |-> mb, lb |-> lb, unknown |-> unknown]

StatedObj(total) == [t |-> "object", total |-> total]

Cat(category, total) ==
    [t |-> "object", category |-> Num(category), total |-> total]

Scope3Obj(statedTotalEmissions, categories) ==
    [t |-> "object", statedTotalEmissions |-> statedTotalEmissions,
     categories |-> categories]

Emissions(scope1, scope2, scope3, calculatedTotalEmissions, statedTotalEmissions) ==
    [t |-> "object", scope1 |-> scope1, scope2 |-> scope2, scope3 |-> scope3,
     calculatedTotalEmissions |-> calculatedTotalEmissions,
     statedTotalEmissions |-> statedTotalEmissions]

ValueObj(value) == [t |-> "object", value |-> value]

Turnover(value, currency) ==
    [t |-> "object", value |-> value, currency |-> currency]

Economy(employees, turnover) ==
    [t |-> "object", employees |-> employees, turnover |-> turnover]

\* every scope1 / scope2 block
ScopeBlocks ==
    {Undef, Null} \cup
    {ScopeObj(a, b, c, d) : a \in ScopeVals, b \in ScopeVals,
                            c \in ScopeVals, d \in ScopeVals}

StatedOpts == {Undef, Null} \cup {StatedObj(v) : v \in Vals}

\* the category lists over every subset of the category numbers (a category
\* number identifies its entry, so none occurs twice), in ascending order,
\* with every choice of numeric totals
RECURSIVE CategoryListsUpTo(_)
CategoryListsUpTo(n) ==
    IF n = 0 THEN {<<>>}
    ELSE LET shorter == CategoryListsUpTo(n - 1)
         IN  shorter \cup
             {Append(l, Cat(n, Num(v))) : l \in shorter, v \in 1..MaxVal}

CategoryLists == CategoryListsUpTo(MaxCategories) \cup {<<Cat(1, Null)>>}

Scope3Blocks ==
    {Undef, Null}
    \cup {Scope3Obj(s, c) : s \in StatedOpts, c \in {Undef, Arr(<<>>)}}
    \cup {Scope3Obj(StatedObj(Num(1)), Arr(l)) : l \in CategoryLists}

TotalsBlocks ==
    {Undef, Null} \cup
    {Emissions(Undef, Undef, Undef, c, s) : c \in Vals, s \in StatedOpts}

Amounts == {Undef, Null, Num(1000000)} \cup {Num(n) : n \in 1..MaxScopeVal}
Currencies == {Null, Str("USD"), Str("EUR")}

EconomyBlocks ==
    {Undef, Null} \cup
    {Economy(e, tv) :
        e \in {Undef, Null} \cup {ValueObj(v) : v \in Vals},
        tv \in {Undef, Null} \cup {Turnover(v, c) : v \in Amounts, c \in Currencies}}

\* end dates: one in the middle of the first year, and one in December of
\* every year
EndDate(k) == ToString(2021 + k) \o "-12-15T00:00:00.000Z"
EndDates == {"2022-06-30T00:00:00.000Z"} \cup {EndDate(k) : k \in 1..MaxPeriods}

Period(endDate, emissions, economy) ==
    [endDate |-> endDate, emissions |-> emissions, economy |-> economy]

Company(k, reportingPeriods) ==
    [wikidataId |-> "Q" \o ToString(k),
     name |-> "Company " \o ToString(k),
     reportingPeriods |-> reportingPeriods]

\* What the two APIs return in the checked runs of main, in three families:
\* one company with one period of varied content; one company with several
\* periods; several companies.

ScopeSamples ==
    {Null} \cup {ScopeObj(a, b, Undef, Undef) : a \in ScopeVals, b \in {Undef, Num(1)}}

Scope3Samples ==
    {Null, Scope3Obj(Undef, Undef)} \cup
    {Scope3Obj(s, Arr(l)) :
        s \in {Null, StatedObj(Num(1))},
        l \in {<<>>, <<Cat(1, Num(1))>>, <<Cat(1, Num(2))>>,
               <<Cat(1, Num(1)), Cat(2, Num(1))>>,
               <<Cat(1, Num(1)), Cat(2, Num(2)), Cat(3, Num(1))>>}}

FullEmissions ==
    Emissions(ScopeObj(Num(1), Undef, Undef, Undef),
              ScopeObj(Undef, Num(1), Num(1), Num(1)),
              Scope3Obj(StatedObj(Num(1)), Arr(<<Cat(1, Num(1))>>)),
              Num(1), StatedObj(Num(1)))

\* scope1 and scope2 with each of their four fields
AllFieldsEmissions ==
    Emissions(ScopeObj(Num(1), Num(1), Num(1), Num(1)),
              ScopeObj(Num(1), Num(1), Num(1), Num(1)),
              Scope3Obj(StatedObj(Num(1)), Arr(<<Cat(1, Num(1))>>)),
              Num(1), StatedObj(Num(1)))

FullEconomy == Economy(ValueObj(Num(1)), Turnover(Num(1000000), Str("USD")))

EmissionsSamples ==
    {Undef, Null, FullEmissions}
    \cup {Emissions(s, Undef, Undef, Undef, Undef) : s \in ScopeSamples}
    \cup {Emissions(Undef, s, Undef, Undef, Undef) : s \in ScopeSamples}
    \cup {Emissions(Undef, Undef, s, Undef, Undef) : s \in Scope3Samples}
    \cup {Emissions(Undef, Undef, Undef, c, s) :
            c \in {Null, Num(1)}, s \in {Undef, StatedObj(Num(1)), StatedObj(Num(2))}}

EconomySamples ==
    {Null, FullEconomy,
     Economy(ValueObj(Num(2)), Turnover(Num(1000000), Str("EUR"))),
     Economy(Undef, Undef)}

ContentDatasets ==
    {<<Company(1, <<Period(EndDate(1), e, Undef)>>)>> : e \in EmissionsSamples}
    \cup {<<Company(1, <<Period(EndDate(1), Undef, e)>>)>> : e \in EconomySamples}
    \cup {<<Company(1, <<Period(EndDate(1), e, FullEconomy)>>)>> :
            e \in {FullEmissions, AllFieldsEmissions}}

DistinctYears(periods) ==
    \A i, j \in 1..Len(periods) :
        formatYear(periods[i].endDate) = formatYear(periods[j].endDate) => i = j

PeriodLists ==
    LET periods == {Period(d, e, Undef) : d \in EndDates, e \in {Undef, FullEmissions}}
    IN  {l \in UNION {[1..n -> periods] : n \in 0..MaxPeriods} : DistinctYears(l)}

PeriodDatasets == {<<Company(1, l)>> : l \in PeriodLists}

CompanyDatasets ==
    LET companies == {Company(k, <<Period(EndDate(1), e, FullEconomy)>>) :
                         k \in 1..MaxCompanies, e \in {Undef, FullEmissions}}
    IN  {l \in UNION {[1..n -> companies] : n \in 0..MaxCompanies} :
            \A i, j \in 1..Len(l) : l[i].wikidataId = l[j].wikidataId => i = j}

Datasets == ContentDatasets \cup PeriodDatasets \cup CompanyDatasets

-----------------------------------------------------------------------------
(* main *)

NoCall == [fn |-> "none", scopeName |-> "", prod |-> Undef, stage |-> Undef, year |-> ""]

EmptyResult(name) ==
    [name |-> name, matchedFields |-> <<>>, mismatchedFields |-> <<>>, accuracy |-> 0]

NoFiles == [name \in {} |-> <<>>]

Init ==
    /\ pc = "fetchStaging"
    /\ stagingData = <<>>
    /\ productionData = <<>>
    /\ comparisonResults = <<>>
    /\ fieldCounts = <<>>
    /\ files = NoFiles
    /\ caught = "none"
    /\ call = NoCall
    /\ returned = Ret(0, EmptyResult(""))

\* await fetchCompanies(STAGING_API_URL) returns the validated list
FetchStaging ==
    /\ pc = "fetchStaging"
    /\ \E data \in Datasets : stagingData' = data
    /\ pc' = "fetchProduction"
    /\ UNCHANGED <<productionData, comparisonResults, fieldCounts, files, caught,
                   call, returned>>

\* fetchCompanies throws: the request fails, the status is not ok, the body
\* is no JSON, or the schema rejects it; the catch of main logs it
FetchStagingFails ==
    /\ pc = "fetchStaging"
    /\ pc' = "caught"
    /\ caught' = "fetchStaging"
    /\ UNCHANGED <<stagingData, productionData, comparisonResults, fieldCounts,
                   files, call, returned>>

FetchProduction ==
    /\ pc = "fetchProduction"
    /\ \E data \in Datasets : productionData' = data
    /\ pc' = "compare"
    /\ UNCHANGED <<stagingData, comparisonResults, fieldCounts, files, caught,
                   call, returned>>

FetchProductionFails ==
    /\ pc = "fetchProduction"
    /\ pc' = "caught"
    /\ caught' = "fetchProduction"
    /\ UNCHANGED <<stagingData, productionData, comparisonResults, fieldCounts,
                   files, call, returned>>

\* const comparisonResults = compareData(stagingData, productionData)
Compare ==
    /\ pc = "compare"
    /\ comparisonResults' = compareData(stagingData, productionData)
    /\ fieldCounts' = compareDataCounts(stagingData, productionData)
    /\ pc' = "outputResults"
    /\ UNCHANGED <<stagingData, productionData, files, caught, call, returned>>

\* await outputResults(comparisonResults): the JSON file holds the results
OutputResults ==
    /\ pc = "outputResults"
    /\ files' = ("accuracy-results.json" :> [results |-> comparisonResults]) @@ files
    /\ pc' = "generateCSV"
    /\ UNCHANGED <<stagingData, productionData, comparisonResults, fieldCounts,
                   caught, call, returned>>

\* writeFile rejects (no output directory, no permission): nothing is written
OutputResultsFails ==
    /\ pc = "outputResults"
    /\ pc' = "caught"
    /\ caught' = "outputResults"
    /\ UNCHANGED <<stagingData, productionData, comparisonResults, fieldCounts,
                   files, call, returned>>

\* await generateCSV(comparisonResults): the CSV file holds a header row and
\* one row for each result
GenerateCSV ==
    /\ pc = "generateCSV"
    /\ files' = ("accuracy-results.csv" :> [rows |-> csvDataOf(comparisonResults)])
                @@ files
    /\ pc' = "done"
    /\ UNCHANGED <<stagingData, productionData, comparisonResults, fieldCounts,
                   caught, call, returned>>

\* the writeFile of generateCSV rejects (the CSV file is not writable, the
\* disk is full): the JSON file written before it stays
GenerateCSVFails ==
    /\ pc = "generateCSV"
    /\ pc' = "caught"
    /\ caught' = "generateCSV"
    /\ UNCHANGED <<stagingData, productionData, comparisonResults, fieldCounts,
                   files, call, returned>>

Next ==
    \/ FetchStaging
    \/ FetchStagingFails
    \/ FetchProduction
    \/ FetchProductionFails
    \/ Compare
    \/ OutputResults
    \/ OutputResultsFails
    \/ GenerateCSV
    \/ GenerateCSVFails

Spec == Init /\ [][Next]_vars

-----------------------------------------------------------------------------
(* A single call of a comparator, as compareData makes it for one aligned  *)
(* period: with a fresh comparisonResult, over every pair of blocks        *)

Call(fn, scopeName, prod, stage) ==
    [fn |-> fn, scopeName |-> scopeName, prod |-> prod, stage |-> stage,
     year |-> formatYear(EndDate(1))]

\* the calls checked: every comparator over every pair of its blocks
IsCall(c) ==
    \/ \E s \in {"scope1", "scope2"}, p \in ScopeBlocks, q \in ScopeBlocks :
          c = Call("compareEmissions", s, p, q)
    \/ \E p \in Scope3Blocks, q \in Scope3Blocks :
          c = Call("compareScope3", "", p, q)
    \/ \E p \in TotalsBlocks, q \in TotalsBlocks :
          c = Call("compareTotalEmissions", "", p, q)
    \/ \E p \in EconomyBlocks, q \in EconomyBlocks :
          c = Call("compareEconomy", "", p, q)

InitCall ==
    /\ pc = "call"
    /\ IsCall(call)
    /\ returned = Ret(0, EmptyResult("Company 1"))
    /\ stagingData = <<>>
    /\ productionData = <<>>
    /\ comparisonResults = <<>>
    /\ fieldCounts = <<>>
    /\ files = NoFiles
    /\ caught = "none"

Returns(result) ==
    /\ returned' = result
    /\ pc' = "returned"
    /\ UNCHANGED <<stagingData, productionData, comparisonResults, fieldCounts,
                   files, caught, call>>

CallCompareEmissions ==
    /\ pc = "call"
    /\ call.fn = "compareEmissions"
    /\ Returns(compareEmissions(call.scopeName, call.prod, call.stage,
                                returned.comparisonResult, call.year))

CallCompareScope3 ==
    /\ pc = "call"
    /\ call.fn = "compareScope3"
    /\ Returns(compareScope3(call.prod, call.stage,
                             returned.comparisonResult, call.year))

CallCompareTotalEmissions ==
    /\ pc = "call"
    /\ call.fn = "compareTotalEmissions"
    /\ Returns(compareTotalEmissions(call.prod, call.stage,
                                     returned.comparisonResult, call.year))

CallCompareEconomy ==
    /\ pc = "call"
    /\ call.fn = "compareEconomy"
    /\ Returns(compareEconomy(call.prod, call.stage,
                              returned.comparisonResult, call.year))

NextCall ==
    \/ CallCompareEmissions
    \/ CallCompareScope3
    \/ CallCompareTotalEmissions
    \/ CallCompareEconomy

SpecCall == InitCall /\ [][NextCall]_vars

-----------------------------------------------------------------------------
(* Properties of a run of main *)

\* compareData has returned
Compared ==
    \/ pc \in {"outputResults", "generateCSV", "done"}
    \/ pc = "caught" /\ caught \in {"outputResults", "generateCSV"}

InStaging(prodCompany) ==
    \E j \in 1..Len(stagingData) : stagingData[j].wikidataId = prodCompany.wikidataId

StageCompanyOf(prodCompany) ==
    stagingData[CHOOSE j \in 1..Len(stagingData) :
                    stagingData[j].wikidataId = prodCompany.wikidataId]

\* the calendar year an ISO end date is written with
YearOf(date) == SubSeq(date, 1, 4)

\* the production periods of a company that have a staging period of the
\* same company ending in the same calendar year
AlignedPeriods(prodCompany, stageCompany) ==
    {k \in 1..Len(prodCompany.reportingPeriods) :
        \E m \in 1..Len(stageCompany.reportingPeriods) :
            YearOf(stageCompany.reportingPeriods[m].endDate)
                = YearOf(prodCompany.reportingPeriods[k].endDate)}

NumCategories(scope3) ==
    IF scope3.t = "object" /\ scope3.categories.t = "array"
    THEN Len(scope3.categories.items) ELSE 0

\* perPeriod plus its number of scope 3 categories, summed over the first k
\* production periods that are aligned
RECURSIVE ExpectedTotal(_, _, _, _)
ExpectedTotal(k, prodCompany, stageCompany, perPeriod) ==
    IF k = 0 THEN 0
    ELSE ExpectedTotal(k - 1, prodCompany, stageCompany, perPeriod)
         + (IF k \in AlignedPeriods(prodCompany, stageCompany)
            THEN perPeriod
                 + NumCategories(Get(prodCompany.reportingPeriods[k].emissions, "scope3"))
            ELSE 0)

CountOf(entries, entry) == Cardinality({i \in 1..Len(entries) : entries[i] = entry})

HasEntry(entries, prefix) == \E i \in 1..Len(entries) : StartsWith(entries[i], prefix)

AbsentOrNull(x) == x.t \in {"undefined", "null"}

\* C1: when the staging collection is identical to the production
\* collection, every company's result has accuracy 100 and an empty
\* mismatchedFields list.
C1_IdenticalDatasetsScoreFull ==
    (Compared /\ stagingData = productionData) =>
        \A i \in 1..Len(comparisonResults) :
            /\ comparisonResults[i].accuracy = 10000
            /\ comparisonResults[i].mismatchedFields = <<>>

\* C2: every accuracy lies in [0, 100], is 0 exactly when totalFieldCount is
\* 0 or matchedFieldCount is 0, and the matched count never exceeds the
\* denominator accumulated for the same periods.
C2_AccuracyWithinRange ==
    Compared =>
        \A i \in 1..Len(comparisonResults) :
            /\ comparisonResults[i].accuracy \in 0..10000
            /\ comparisonResults[i].accuracy = 0
                 <=> (fieldCounts[i].totalFieldCount = 0
                      \/ fieldCounts[i].matchedFieldCount = 0)
            /\ fieldCounts[i].matchedFieldCount <= fieldCounts[i].totalFieldCount

\* C3: the result list has exactly one entry per production company, in
\* production order (so a company only staging has gets none), and a
\* production company that staging lacks gets matchedFields empty, the single
\* mismatch "Company does not exist in staging", accuracy 0, and no
\* reporting-period comparison.
C3_AbsentCompanyResult ==
    Compared =>
        /\ Len(comparisonResults) = Len(productionData)
        /\ \A i \in 1..Len(productionData) :
            /\ comparisonResults[i].name = productionData[i].name
            /\ ~InStaging(productionData[i]) =>
                /\ comparisonResults[i].matchedFields = <<>>
                /\ comparisonResults[i].mismatchedFields
                     = <<"Company does not exist in staging">>
                /\ comparisonResults[i].accuracy = 0
                /\ fieldCounts[i].totalFieldCount = 0
                /\ fieldCounts[i].matchedFieldCount = 0

\* a production company with a reporting period that staging lacks, beside
\* a staging company that production lacks, has been compared
C3_Witness ==
    /\ Compared
    /\ \E i \in 1..Len(productionData) :
        /\ ~InStaging(productionData[i])
        /\ Len(productionData[i].reportingPeriods) > 0
    /\ \E j \in 1..Len(stagingData) :
        \A i \in 1..Len(productionData) :
            productionData[i].wikidataId # stagingData[j].wikidataId

\* C4: when the run ends in the catch of main, neither output file has been
\* written.
C4_NoPartialOutput ==
    pc = "caught" => DOMAIN files = {}

\* C6 as claimed: the note is "All data matches ..." iff mismatchedFields is
\* empty, and otherwise it is "Partial mismatch or missing data ...".
C6_NoteFollowsMismatches ==
    Compared =>
        \A i \in 1..Len(comparisonResults) :
            IF comparisonResults[i].mismatchedFields = <<>>
            THEN comparisonResults[i].note
                   = "All data matches between production and staging"
            ELSE comparisonResults[i].note
                   = "Partial mismatch or missing data between production and staging"

\* C6, amended: the note is "All data matches ..." iff mismatchedFields is
\* empty; otherwise it is "Partial mismatch or missing data ..." for a company
\* found in staging and "Exists in production but not in staging" for a
\* company staging lacks.
C6_NoteFollowsMismatchesOrAbsence ==
    Compared =>
        \A i \in 1..Len(comparisonResults) :
            /\ comparisonResults[i].note
                 = "All data matches between production and staging"
               <=> comparisonResults[i].mismatchedFields = <<>>
            /\ comparisonResults[i].mismatchedFields # <<>> =>
                 comparisonResults[i].note =
                    IF InStaging(productionData[i])
                    THEN "Partial mismatch or missing data between production and staging"
                    ELSE "Exists in production but not in staging"

\* a result with mismatches for a company found in staging, beside a result
\* for a company staging lacks
C6_Witness ==
    /\ Compared
    /\ \E i \in 1..Len(comparisonResults) :
        InStaging(productionData[i]) /\ comparisonResults[i].mismatchedFields # <<>>
    /\ \E i \in 1..Len(comparisonResults) : ~InStaging(productionData[i])

\* C9 with perPeriod as the fixed part of an aligned period's denominator:
\* for a company found in staging, every production period without a
\* same-year staging period adds exactly one "Reporting period: <year>"
\* mismatch and nothing to the two counters, and every aligned period adds
\* perPeriod plus its number of production scope 3 categories to
\* totalFieldCount.
PeriodAccounting(perPeriod) ==
    Compared =>
        \A i \in 1..Len(productionData) :
            InStaging(productionData[i]) =>
                LET prodCompany == productionData[i]
                    stageCompany == StageCompanyOf(prodCompany)
                    aligned == AlignedPeriods(prodCompany, stageCompany)
                    n == Len(prodCompany.reportingPeriods)
                IN  /\ fieldCounts[i].totalFieldCount
                         = ExpectedTotal(n, prodCompany, stageCompany, perPeriod)
                    /\ \A k \in 1..n :
                         CountOf(comparisonResults[i].mismatchedFields,
                                 "Reporting period: "
                                    \o YearOf(prodCompany.reportingPeriods[k].endDate))
                           = IF k \in aligned THEN 0 ELSE 1
                    /\ aligned = {} =>
                         /\ fieldCounts[i].matchedFieldCount = 0
                         /\ comparisonResults[i].matchedFields = <<>>
                         /\ Len(comparisonResults[i].mismatchedFields) = n

\* C9 as claimed: an aligned period adds 8 plus its number of categories
C9_PeriodAddsEightPlusCategories == PeriodAccounting(8)

\* C9, amended: an aligned period adds 9 plus its number of categories
\* (1 + 3 + (1 + categories) + 2 + 2)
C9_PeriodAddsNinePlusCategories == PeriodAccounting(9)

\* a company with a production period staging lacks, and a production period
\* aligned with a staging period of another date in the same year
C9_Witness ==
    /\ Compared
    /\ \E i \in 1..Len(productionData) :
        /\ InStaging(productionData[i])
        /\ LET prodCompany == productionData[i]
               stageCompany == StageCompanyOf(prodCompany)
               aligned == AlignedPeriods(prodCompany, stageCompany)
           IN  /\ \E k \in 1..Len(prodCompany.reportingPeriods) : k \notin aligned
               /\ \E k \in aligned :
                    /\ \A m \in 1..Len(stageCompany.reportingPeriods) :
                         stageCompany.reportingPeriods[m].endDate
                            # prodCompany.reportingPeriods[k].endDate
                    /\ NumCategories(Get(prodCompany.reportingPeriods[k].emissions,
                                         "scope3")) > 0

-----------------------------------------------------------------------------
(* Properties of a single comparator call *)

Returned == pc = "returned"

Matched == returned.comparisonResult.matchedFields
Mismatched == returned.comparisonResult.mismatchedFields

NoEntry(label) == ~HasEntry(Matched, label) /\ ~HasEntry(Mismatched, label)

FieldPair(prod, stage, label) == [prod |-> prod, stage |-> stage, label |-> label]

\* the four fields of a scope1 / scope2 block, with the label of their entry
ScopeFieldPairs ==
    IF call.fn = "compareEmissions"
    THEN {FieldPair(Get(call.prod, f), Get(call.stage, f),
                    call.scopeName \o "." \o f \o ": " \o call.year) :
            f \in {"total", "mb", "lb", "unknown"}}
    ELSE {}

\* employees.value and turnover.value, with the prefix of their entry
EconomyFieldPairs ==
    IF call.fn = "compareEconomy"
    THEN {FieldPair(Get(Get(call.prod, "employees"), "value"),
                    Get(Get(call.stage, "employees"), "value"), "employees: "),
          FieldPair(Get(Get(call.prod, "turnover"), "value"),
                    Get(Get(call.stage, "turnover"), "value"), "economy: ")}
    ELSE {}

\* the stated and calculated totals, with the label of their entry
TotalPairs ==
    CASE call.fn = "compareScope3" ->
            {FieldPair(Get(Get(call.prod, "statedTotalEmissions"), "total"),
                       Get(Get(call.stage, "statedTotalEmissions"), "total"),
                       "scope3.statedTotalEmissions.total: " \o call.year)}
      [] call.fn = "compareTotalEmissions" ->
            {FieldPair(Get(call.prod, "calculatedTotalEmissions"),
                       Get(call.stage, "calculatedTotalEmissions"),
                       "calculatedTotalEmissions: " \o call.year),
             FieldPair(Get(Get(call.prod, "statedTotalEmissions"), "total"),
                       Get(Get(call.stage, "statedTotalEmissions"), "total"),
                       "statedTotalEmissions.total: " \o call.year)}
      [] OTHER -> {}

HasCategories(scope3) == Get(scope3, "categories").t = "array"

CategoriesOf(scope3) ==
    IF HasCategories(scope3) THEN Get(scope3, "categories").items ELSE <<>>

HasCategory(categories, n) ==
    \E k \in 1..Len(categories) : categories[k].category = Num(n)

\* the total of category n, undefined when the list has no category n
TotalOfCategory(categories, n) ==
    IF HasCategory(categories, n)
    THEN categories[CHOOSE k \in 1..Len(categories) :
                        categories[k].category = Num(n)].total
    ELSE Undef

CategoryLabel(n) == "scope3.category=" \o ToString(n) \o ": " \o call.year

\* the total of every scope 3 category number on the two sides
CategoryPairs ==
    IF call.fn = "compareScope3"
    THEN {FieldPair(TotalOfCategory(CategoriesOf(call.prod), n),
                    TotalOfCategory(CategoriesOf(call.stage), n),
                    CategoryLabel(n)) : n \in 1..MaxCategories}
    ELSE {}

\* C5 as claimed: a field that is absent or null on either side adds no
\* entry to matchedFields, none to mismatchedFields, and no increment to the
\* matched count.
C5_AbsentOrNullContributesNothing ==
    Returned =>
        /\ \A fp \in ScopeFieldPairs \cup EconomyFieldPairs \cup TotalPairs
                     \cup CategoryPairs :
             (AbsentOrNull(fp.prod) \/ AbsentOrNull(fp.stage)) => NoEntry(fp.label)
        /\ returned.ret = Len(Matched)

\* C5, amended: the count a comparator returns is the number of entries it
\* added to matchedFields, and
\*  - a scope1/scope2 field, employees.value or turnover.value that is absent
\*    on either side adds no entry (a null there is compared like a value);
\*  - a stated or calculated total that is absent on both sides, or null on
\*    both sides, adds no entry (absent or null on one side only, it is a
\*    mismatch);
\*  - a scope 3 category adds no entry when production lacks it, or when
\*    either side has no category list (a category only staging lacks is a
\*    mismatch).
C5_AbsentContributesNothing ==
    Returned =>
        /\ \A fp \in ScopeFieldPairs \cup EconomyFieldPairs :
             (fp.prod = Undef \/ fp.stage = Undef) => NoEntry(fp.label)
        /\ \A fp \in TotalPairs :
             (AbsentOrNull(fp.prod) /\ fp.prod = fp.stage) => NoEntry(fp.label)
        /\ \A n \in 1..MaxCategories :
             (call.fn = "compareScope3"
              /\ (\/ ~HasCategory(CategoriesOf(call.prod), n)
                  \/ ~HasCategories(call.prod)
                  \/ ~HasCategories(call.stage))) => NoEntry(CategoryLabel(n))
        /\ returned.ret = Len(Matched)

\* compareEmissions has returned for blocks with one field set only in
\* production, one set only in staging, and one set on both sides
C5_Witness ==
    /\ Returned
    /\ call.fn = "compareEmissions"
    /\ \E fp \in ScopeFieldPairs : fp.prod.t = "number" /\ fp.stage = Undef
    /\ \E fp \in ScopeFieldPairs : fp.prod = Undef /\ fp.stage.t = "number"
    /\ \E fp \in ScopeFieldPairs : fp.prod.t = "number" /\ fp.stage.t = "number"
    /\ Len(Matched) + Len(Mismatched) = 1

\* what C7 says of the production category at index k of the list
CategoryEntry(k) ==
    LET prodCategory == CategoriesOf(call.prod)[k]
        stageCategories == CategoriesOf(call.stage)
        label == CategoryLabel(prodCategory.category.v)
        equalInStaging ==
            \E m \in 1..Len(stageCategories) :
                /\ stageCategories[m].category = prodCategory.category
                /\ stageCategories[m].total = prodCategory.total
    IN  /\ CountOf(Matched, label) = (IF equalInStaging THEN 1 ELSE 0)
        /\ CountOf(Mismatched, label) = (IF equalInStaging THEN 0 ELSE 1)

\* C7 as claimed: every production scope 3 category yields exactly one entry
\* "scope3.category=<n>: <year>", matched when staging has the category with
\* an equal total and mismatched when staging lacks it or its total differs;
\* and the denominator for scope 3 is 1 plus the number of production
\* categories.
C7_EveryCategoryOneEntry ==
    (Returned /\ call.fn = "compareScope3") =>
        /\ \A k \in 1..Len(CategoriesOf(call.prod)) : CategoryEntry(k)
        /\ Scope3Denominator(call.prod) = 1 + Len(CategoriesOf(call.prod))

\* C7, amended: that holds when both sides have a category list; when
\* either side has none, no category entry is recorded at all. The
\* denominator is 1 plus the number of production categories in both cases.
C7_CategoryEntriesWhenBothList ==
    (Returned /\ call.fn = "compareScope3") =>
        /\ IF HasCategories(call.prod) /\ HasCategories(call.stage)
           THEN \A k \in 1..Len(CategoriesOf(call.prod)) : CategoryEntry(k)
           ELSE NoEntry("scope3.category=")
        /\ Scope3Denominator(call.prod) = 1 + Len(CategoriesOf(call.prod))

\* compareScope3 has returned for production categories of which staging has
\* one with an equal total, one with another total, and lacks one
C7_Witness ==
    /\ Returned
    /\ call.fn = "compareScope3"
    /\ HasCategories(call.stage)
    /\ \E fp \in CategoryPairs : fp.prod.t = "number" /\ fp.stage = fp.prod
    /\ \E fp \in CategoryPairs :
         fp.prod.t = "number" /\ fp.stage.t = "number" /\ fp.stage # fp.prod
    /\ \E fp \in CategoryPairs : fp.prod.t = "number" /\ fp.stage = Undef
    /\ Len(Matched) + Len(Mismatched) >= 3

\* C8 as claimed: a stated or calculated total is recorded as a match when
\* the two sides are equal and non-null, and as a mismatch in every other
\* case, both sides null or absent included (stated here for calls whose
\* two blocks are both present).
C8_TotalMatchElseMismatch ==
    (Returned /\ call.prod.t = "object" /\ call.stage.t = "object") =>
        \A fp \in TotalPairs :
            IF fp.prod = fp.stage /\ ~AbsentOrNull(fp.prod)
            THEN CountOf(Matched, fp.label) = 1 /\ CountOf(Mismatched, fp.label) = 0
            ELSE CountOf(Matched, fp.label) = 0 /\ CountOf(Mismatched, fp.label) = 1

\* C8, amended: a match when the two sides are equal and non-null, no entry
\* at all when both sides are null or both are absent, and a mismatch in
\* every other case (different values, or null or absent on one side only,
\* or null against absent).
C8_TotalMatchNothingOrMismatch ==
    Returned =>
        \A fp \in TotalPairs :
            CASE fp.prod = fp.stage /\ ~AbsentOrNull(fp.prod) ->
                    CountOf(Matched, fp.label) = 1 /\ CountOf(Mismatched, fp.label) = 0
              [] fp.prod = fp.stage /\ AbsentOrNull(fp.prod) ->
                    CountOf(Matched, fp.label) = 0 /\ CountOf(Mismatched, fp.label) = 0
              [] OTHER ->
                    CountOf(Matched, fp.label) = 0 /\ CountOf(Mismatched, fp.label) = 1

\* compareTotalEmissions has returned for a calculated total that is null on
\* both sides and a stated total that is null in production and absent in
\* staging
C8_Witness ==
    /\ Returned
    /\ call.fn = "compareTotalEmissions"
    /\ Get(call.prod, "calculatedTotalEmissions") = Null
    /\ Get(call.stage, "calculatedTotalEmissions") = Null
    /\ Get(Get(call.prod, "statedTotalEmissions"), "total") = Null
    /\ Get(Get(call.stage, "statedTotalEmissions"), "total") = Undef
    /\ Mismatched = <<"statedTotalEmissions.total: " \o call.year>>

====
